---- MODULE Spec2Model ----
(***************************************************************************)
(* Model of src/src/index.ts: deriving command-line option descriptors     *)
(* from a zod schema (schemaToOptions and the parse* functions behind it), *)
(* building the yargs-parser configuration from the derived table, and     *)
(* validating the parsed arguments against the refined command schema.     *)
(*                                                                         *)
(* A zod type is an object with a mutable _def; the model keeps all _def   *)
(* objects in a heap (defs), addressed by their index, so that sharing,    *)
(* in-place annotation (alias) and malformed (cyclic) chains are states    *)
(* the model can be in.  0 stands for JavaScript's undefined where a node  *)
(* reference is expected; an optional value is a sequence of length 0      *)
(* (undefined) or 1.                                                       *)
(***************************************************************************)
EXTENDS Integers, Sequences, FiniteSets, TLC

VARIABLES
  defs,      \* heap of _def objects: defs[n] is the _def of zod type n
  cur,       \* the zod type expression being written (0: none)
  pending,   \* the properties of the object literal being written
  phase,     \* "define", "derive", "derived", "configured", "validated"
  root,      \* the schema handed to schemaToOptions
  stack,     \* call stack of parseDef / parseObject activations
  options,   \* the OptionInfo[] being filled
  origin,    \* origin[j]: the property (zod type) options[j] was made for
  config,    \* the configuration object handed to yargs-parser
  argv,      \* the parsed arguments handed to safeParse
  result     \* the outcome of safeParse

vars == <<defs, cur, pending, phase, root, stack, options, origin, config,
          argv, result>>

(* ------------------------------ bounds -------------------------------- *)

\* Largest heap the schema-definition actions may grow.
MaxNodes == 4

\* Most calls of alias() while a schema is written.
MaxAliases == 1

(* ------------------------- JavaScript objects ------------------------- *)

\* The canonical array-index property names the model uses, ascending.
IndexKeys == <<"0", "1", "2", "3", "4">>

Range(s) == {s[i] : i \in DOMAIN s}

IsIndexKey(k) == k \in Range(IndexKeys)

IsNamedKey(k) == ~IsIndexKey(k)

\* Own property names of an object whose keys were inserted in the order
\* keys: integer-like keys first, ascending, then the others in insertion
\* order (the order of for...in and Object.getOwnPropertyNames).
OwnPropertyNames(keys) ==
  SelectSeq(IndexKeys, LAMBDA k : k \in Range(keys))
    \o SelectSeq(keys, IsNamedKey)

\* Keys of the runtime object of a numeric TypeScript enum, in insertion
\* order: E[E["Name"] = i] = "Name" sets "Name" and then the index i.
NumericEnumKeys(names) ==
  [i \in 1..(2 * Len(names)) |->
      IF i % 2 = 1 THEN names[(i + 1) \div 2] ELSE IndexKeys[i \div 2]]

(* ----------------------------- zod types ------------------------------ *)

Def(typeName) ==
  [typeName |-> typeName, alias |-> <<>>, innerType |-> 0, schema |-> 0,
   left |-> 0, right |-> 0, shape |-> <<>>, values |-> <<>>]

OutputType == <<"csv", "json", "md", "text", "none">>

AuthTypes ==
  <<"certificate", "deviceCode", "password", "identity", "browser", "secret">>

CloudType == NumericEnumKeys(<<"Public", "USGov", "USGovHigh", "USGovDoD", "China">>)

ZString == Def("ZodString")
ZNumber == Def("ZodNumber")
ZBoolean == Def("ZodBoolean")
ZAny == Def("ZodAny")
ZEnum(values) == [Def("ZodEnum") EXCEPT !.values = values]
ZNativeEnum(values) == [Def("ZodNativeEnum") EXCEPT !.values = values]
ZOptional(n) == [Def("ZodOptional") EXCEPT !.innerType = n]
ZDefault(n) == [Def("ZodDefault") EXCEPT !.innerType = n]
ZEffects(n) == [Def("ZodEffects") EXCEPT !.schema = n]
ZIntersection(l, r) == [Def("ZodIntersection") EXCEPT !.left = l, !.right = r]
ZObject(shape) == [Def("ZodObject") EXCEPT !.shape = shape]

Property(key, n) == [key |-> key, type |-> n]

\* alias(alias, type): type._def.alias = alias, in place.
WithAlias(d, a) == [d EXCEPT !.alias = <<a>>]

(* ------------------- the schemas index.ts declares --------------------- *)

\* z.string().optional() and its siblings, as the two heap cells they make.
OptionalOf(leaf, at) == <<leaf, ZOptional(at)>>

\* The heap after the module's declarations: globalOptions (cell 9) and
\* commandOptions = globalOptions.extend({...}).strict() (cell 37), which
\* shares the cells of the global properties.
ProgramDefs ==
     OptionalOf(ZString, 1)                                     \* 2  query
  \o OptionalOf(ZEnum(OutputType), 3)                           \* 4  output
  \o <<ZBoolean, ZDefault(5)>>                                  \* 6  debug
  \o <<ZBoolean, ZDefault(7)>>                                  \* 8  verbose
  \o <<ZObject(<<Property("query", 2), Property("output", 4),
                 Property("debug", 6), Property("verbose", 8)>>)>>
  \o OptionalOf(ZEnum(AuthTypes), 10)
  \o <<WithAlias(ZDefault(11), "t")>>                           \* 12 authType
  \o OptionalOf(ZNativeEnum(CloudType), 13)
  \o <<ZDefault(14)>>                                           \* 15 cloud
  \o <<ZString, WithAlias(ZOptional(16), "u")>>                 \* 17 userName
  \o <<ZString, WithAlias(ZOptional(18), "p")>>                 \* 19 password
  \o OptionalOf(ZString, 20)
  \o <<WithAlias(ZEffects(21), "c")>>                           \* 22 certificateFile
  \o OptionalOf(ZString, 23)                                    \* 24 certificateBase64Encoded
  \o OptionalOf(ZString, 25)                                    \* 26 thumbprint
  \o OptionalOf(ZString, 27)                                    \* 28 appId
  \o OptionalOf(ZString, 29)                                    \* 30 tenant
  \o <<ZString, WithAlias(ZOptional(31), "s")>>                 \* 32 secret
  \o OptionalOf(ZNumber, 33)                                    \* 34 dummyNumber
  \o OptionalOf(ZBoolean, 35)                                   \* 36 dummyBoolean
  \o <<ZObject(<<Property("query", 2), Property("output", 4),
                 Property("debug", 6), Property("verbose", 8),
                 Property("authType", 12), Property("cloud", 15),
                 Property("userName", 17), Property("password", 19),
                 Property("certificateFile", 22),
                 Property("certificateBase64Encoded", 24),
                 Property("thumbprint", 26), Property("appId", 28),
                 Property("tenant", 30), Property("secret", 32),
                 Property("dummyNumber", 34),
                 Property("dummyBoolean", 36)>>)>>

globalOptions == 9

commandOptions == 37

\* The run of index.ts itself, as opposed to a schema written in the model.
IsProgram == defs = ProgramDefs /\ root = commandOptions

(* ------------------------ writing a schema ---------------------------- *)

\* Property names, aliases and leaf types the schema-writing actions use.
Keys == {"a", "b"}

Aliases == {"u"}

Leaves ==
  {ZString, ZNumber, ZBoolean, ZEnum(OutputType), ZNativeEnum(CloudType), ZAny}

\* The other operand of an intersection: the no-op marker or a real type.
Operands == {ZAny, ZBoolean}

Defining(room) == phase = "define" /\ Len(defs) + room <= MaxNodes

\* z.string(), z.number(), z.enum([...]), z.nativeEnum(E), z.any(), ...
\* written as (the core of) a property of an object still to be made.
Leaf(d) ==
  /\ Defining(2) /\ cur = 0
  /\ Len(pending) < Cardinality(Keys)
  /\ defs' = Append(defs, d)
  /\ cur' = Len(defs) + 1
  /\ UNCHANGED <<pending, phase, root, stack, options, origin, config, argv, result>>

\* .optional(), .default(v), .refine(p): a new type around the current
\* one; the wrapper's _def does not inherit the wrapped type's alias.
Wrap(wrapper) ==
  /\ Defining(1) /\ cur # 0
  /\ defs' = Append(defs, wrapper)
  /\ cur' = Len(defs) + 1
  /\ UNCHANGED <<pending, phase, root, stack, options, origin, config, argv, result>>

Optional == Wrap(ZOptional(cur))

Default == Wrap(ZDefault(cur))

Refine == Wrap(ZEffects(cur))

\* cur.and(other) (cur on the left) or other.and(cur) (cur on the right).
And(other, curLeft) ==
  /\ Defining(2) /\ cur # 0
  /\ defs' = defs \o <<other,
                       IF curLeft THEN ZIntersection(cur, Len(defs) + 1)
                                  ELSE ZIntersection(Len(defs) + 1, cur)>>
  /\ cur' = Len(defs) + 2
  /\ UNCHANGED <<pending, phase, root, stack, options, origin, config, argv, result>>

\* function alias(alias, type): writes the alias on the type's own _def.
alias(a) ==
  /\ phase = "define" /\ cur # 0
  /\ defs[cur].alias = <<>>
  /\ Cardinality({n \in DOMAIN defs : defs[n].alias # <<>>}) < MaxAliases
  /\ defs' = [defs EXCEPT ![cur] = WithAlias(@, a)]
  /\ UNCHANGED <<cur, pending, phase, root, stack, options, origin, config, argv, result>>

\* key: <the current type>, inside an object literal.
Field(key) ==
  /\ phase = "define" /\ cur # 0
  /\ \A i \in DOMAIN pending : pending[i].key # key
  /\ pending' = Append(pending, Property(key, cur))
  /\ cur' = 0
  /\ UNCHANGED <<defs, phase, root, stack, options, origin, config, argv, result>>

\* z.object({ ...the properties written so far... }).
Object ==
  /\ Defining(1) /\ cur = 0
  /\ defs' = Append(defs, ZObject(pending))
  /\ cur' = Len(defs) + 1
  /\ pending' = <<>>
  /\ UNCHANGED <<phase, root, stack, options, origin, config, argv, result>>

\* A malformed schema: a wrapper whose child reference was overwritten to
\* point back at the wrapper itself (_def is as writable as alias shows).
Cyclic ==
  /\ phase = "define" /\ cur # 0
  /\ defs[cur].typeName \in {"ZodOptional", "ZodDefault"}
  /\ \A n \in DOMAIN defs : defs[n].innerType # n
  /\ defs' = [defs EXCEPT ![cur].innerType = cur]
  /\ UNCHANGED <<cur, pending, phase, root, stack, options, origin, config, argv, result>>

(* ------------------- schema -> option descriptors --------------------- *)

\* A variant of the initial descriptor that does not read the alias.
OptionInfoWithoutAlias(name, a) ==
  [name |-> name, alias |-> <<>>, required |-> TRUE, autocomplete |-> <<>>,
   type |-> "string"]

\* interface OptionInfo, as parseObject creates it for a property.
OptionInfo(name, a) ==
  [name |-> name, alias |-> a, required |-> TRUE, autocomplete |-> <<>>,
   type |-> "string"]

\* What a parse function hands back: the next _def (0: undefined) and the
\* currentOption it may have written to (<<>>: no currentOption given).
Parsed(next, currentOption) == [next |-> next, option |-> currentOption]

parseEffect(def, currentOption) == Parsed(def.schema, currentOption)

\* A variant of parseIntersection that gives up when both children are
\* real types.
parseIntersectionOneSided(def, currentOption) ==
  IF defs[def.left].typeName # "ZodAny" /\ defs[def.right].typeName = "ZodAny"
    THEN Parsed(def.left, currentOption)
  ELSE IF defs[def.left].typeName = "ZodAny" /\ defs[def.right].typeName # "ZodAny"
    THEN Parsed(def.right, currentOption)
  ELSE Parsed(0, currentOption)

parseIntersection(def, currentOption) ==
  IF defs[def.left].typeName # "ZodAny" THEN Parsed(def.left, currentOption)
  ELSE IF defs[def.right].typeName # "ZodAny" THEN Parsed(def.right, currentOption)
  ELSE Parsed(0, currentOption)

parseString(def, currentOption) ==
  Parsed(0, IF currentOption = <<>> THEN <<>>
            ELSE <<[currentOption[1] EXCEPT !.type = "string"]>>)

parseNumber(def, currentOption) ==
  Parsed(0, IF currentOption = <<>> THEN <<>>
            ELSE <<[currentOption[1] EXCEPT !.type = "number"]>>)

parseBoolean(def, currentOption) ==
  Parsed(0, IF currentOption = <<>> THEN <<>>
            ELSE <<[currentOption[1] EXCEPT !.type = "boolean"]>>)

\* A variant of parseOptional that forgets to clear required.
parseOptionalKeepsRequired(def, currentOption) ==
  Parsed(def.innerType, currentOption)

parseOptional(def, currentOption) ==
  Parsed(def.innerType,
         IF currentOption = <<>> THEN <<>>
         ELSE <<[currentOption[1] EXCEPT !.required = FALSE]>>)

parseDefault(def, currentOption) == Parsed(def.innerType, currentOption)

parseEnum(def, currentOption) ==
  Parsed(0, IF currentOption = <<>> THEN <<>>
            ELSE <<[currentOption[1] EXCEPT !.type = "string",
                                            !.autocomplete = <<def.values>>]>>)

parseNativeEnum(def, currentOption) ==
  Parsed(0, IF currentOption = <<>> THEN <<>>
            ELSE <<[currentOption[1] EXCEPT
                      !.type = "string",
                      !.autocomplete = <<OwnPropertyNames(def.values)>>]>>)

\* A variant of getParseFn whose default branch treats the node as a flag.
getParseFnDefaultsToBoolean(typeName) ==
  CASE typeName = "ZodEffects" -> "parseEffect"
    [] typeName = "ZodObject" -> "parseObject"
    [] typeName = "ZodOptional" -> "parseOptional"
    [] typeName = "ZodString" -> "parseString"
    [] typeName = "ZodNumber" -> "parseNumber"
    [] typeName = "ZodEnum" -> "parseEnum"
    [] typeName = "ZodNativeEnum" -> "parseNativeEnum"
    [] typeName = "ZodDefault" -> "parseDefault"
    [] typeName = "ZodIntersection" -> "parseIntersection"
    [] OTHER -> "parseBoolean"

\* The switch of getParseFn; "" is its default branch (no parse function).
getParseFn(typeName) ==
  CASE typeName = "ZodEffects" -> "parseEffect"
    [] typeName = "ZodObject" -> "parseObject"
    [] typeName = "ZodOptional" -> "parseOptional"
    [] typeName = "ZodString" -> "parseString"
    [] typeName = "ZodNumber" -> "parseNumber"
    [] typeName = "ZodBoolean" -> "parseBoolean"
    [] typeName = "ZodEnum" -> "parseEnum"
    [] typeName = "ZodNativeEnum" -> "parseNativeEnum"
    [] typeName = "ZodDefault" -> "parseDefault"
    [] typeName = "ZodIntersection" -> "parseIntersection"
    [] OTHER -> ""

\* The parse functions that only look at one _def and the currentOption.
Apply(fn, def, currentOption) ==
  CASE fn = "parseEffect" -> parseEffect(def, currentOption)
    [] fn = "parseIntersection" -> parseIntersection(def, currentOption)
    [] fn = "parseOptional" -> parseOptional(def, currentOption)
    [] fn = "parseString" -> parseString(def, currentOption)
    [] fn = "parseNumber" -> parseNumber(def, currentOption)
    [] fn = "parseBoolean" -> parseBoolean(def, currentOption)
    [] fn = "parseEnum" -> parseEnum(def, currentOption)
    [] fn = "parseNativeEnum" -> parseNativeEnum(def, currentOption)
    [] fn = "parseDefault" -> parseDefault(def, currentOption)

(* Activations.  A parseDef activation holds parsedDef (def), the
   currentOption it was given, the _def it was called with (property) and
   the _defs it has dispatched so far (seen).  A parseObject activation
   holds the object's _def (def) and the keys for...in has yet to visit. *)
ParseDefFrame(n, currentOption) ==
  [fn |-> "parseDef", def |-> n, option |-> currentOption, property |-> n,
   keys |-> <<>>, seen |-> {}]

ParseObjectFrame(n) ==
  [fn |-> "parseObject", def |-> n, option |-> <<>>, property |-> n,
   keys |-> OwnPropertyNames([i \in DOMAIN defs[n].shape |-> defs[n].shape[i].key]),
   seen |-> {}]

Top == stack[Len(stack)]

Below == SubSeq(stack, 1, Len(stack) - 1)

Running(fn) == phase = "derive" /\ stack # <<>> /\ Top.fn = fn

\* properties[key] of the object _def n.
PropertyOf(n, key) ==
  LET i == CHOOSE i \in DOMAIN defs[n].shape : defs[n].shape[i].key = key
  IN  defs[n].shape[i].type

\* function schemaToOptions, up to its call of parseDef.
schemaToOptions ==
  /\ phase = "define" /\ cur # 0 /\ pending = <<>>
  /\ root' = cur
  /\ options' = <<>>
  /\ origin' = <<>>
  /\ stack' = <<ParseDefFrame(cur, <<>>)>>
  /\ phase' = "derive"
  /\ UNCHANGED <<defs, cur, pending, config, argv, result>>

\* The parseDef activation frame (the top of stk) leaves its loop.  Called
\* from schemaToOptions, the table is returned; called from parseObject,
\* the option is pushed and the for...in loop moves to the next key.
Return(frame, stk) ==
  IF stk = <<>>
  THEN /\ stack' = <<>>
       /\ phase' = "derived"
       /\ UNCHANGED <<options, origin>>
  ELSE /\ options' = Append(options, frame.option[1])
       /\ origin' = Append(origin, frame.property)
       /\ stack' = [stk EXCEPT ![Len(stk)].keys = Tail(@)]
       /\ UNCHANGED phase

\* One turn of parseDef's do...while for a parse function other than
\* parseObject: dispatch, then loop on the returned _def or break.
Dispatch(fn) ==
  /\ Running("parseDef")
  /\ getParseFn(defs[Top.def].typeName) = fn
  /\ LET r == Apply(fn, defs[Top.def], Top.option)
         frame == [Top EXCEPT !.option = r.option, !.def = r.next,
                              !.seen = @ \cup {Top.def}]
     IN  IF r.next # 0
         THEN /\ stack' = Below \o <<frame>>
              /\ UNCHANGED <<phase, options, origin>>
         ELSE Return(frame, Below)
  /\ UNCHANGED <<defs, cur, pending, root, config, argv, result>>

DoParseEffect == Dispatch("parseEffect")

DoParseIntersection == Dispatch("parseIntersection")

DoParseOptional == Dispatch("parseOptional")

DoParseDefault == Dispatch("parseDefault")

DoParseString == Dispatch("parseString")

DoParseNumber == Dispatch("parseNumber")

DoParseBoolean == Dispatch("parseBoolean")

DoParseEnum == Dispatch("parseEnum")

DoParseNativeEnum == Dispatch("parseNativeEnum")

\* getParseFn returned nothing: parseDef breaks out of its loop.
NoParseFn ==
  /\ Running("parseDef")
  /\ getParseFn(defs[Top.def].typeName) = ""
  /\ Return(Top, Below)
  /\ UNCHANGED <<defs, cur, pending, root, config, argv, result>>

\* parseDef dispatches to parseObject, which reads the shape and starts
\* its for...in loop.
parseObject ==
  /\ Running("parseDef")
  /\ getParseFn(defs[Top.def].typeName) = "parseObject"
  /\ stack' = Below \o <<[Top EXCEPT !.seen = @ \cup {Top.def}],
                         ParseObjectFrame(Top.def)>>
  /\ UNCHANGED <<defs, cur, pending, phase, root, options, origin, config,
                 argv, result>>

\* The body of parseObject's loop up to its call of parseDef.
parseObjectProperty ==
  /\ Running("parseObject")
  /\ Top.keys # <<>>
  /\ LET key == Head(Top.keys)
         property == PropertyOf(Top.def, key)
         option == OptionInfo(key, defs[property].alias)
     IN  stack' = Append(stack, ParseDefFrame(property, <<option>>))
  /\ UNCHANGED <<defs, cur, pending, phase, root, options, origin, config,
                 argv, result>>

\* parseObject returns undefined, so the parseDef that called it breaks.
parseObjectReturn ==
  /\ Running("parseObject")
  /\ Top.keys = <<>>
  /\ LET caller == Below[Len(Below)]
     IN  Return([caller EXCEPT !.def = 0], SubSeq(Below, 1, Len(Below) - 1))
  /\ UNCHANGED <<defs, cur, pending, root, config, argv, result>>

parseDef ==
  \/ DoParseEffect
  \/ DoParseIntersection
  \/ DoParseOptional
  \/ DoParseDefault
  \/ DoParseString
  \/ DoParseNumber
  \/ DoParseBoolean
  \/ DoParseEnum
  \/ DoParseNativeEnum
  \/ NoParseFn
  \/ parseObject
  \/ parseObjectProperty
  \/ parseObjectReturn

(* ------------------ configuring yargs-parser (argv) -------------------- *)

\* JavaScript truthiness of an optional string.
Truthy(v) == v # <<>> /\ v[1] # ""

Names(opts) == [j \in DOMAIN opts |-> opts[j].name]

\* optionsInfo.reduce(...): aliases[option.name] = option.alias for every
\* option with an alias; a later option of the same name overwrites.
AliasMap(opts) ==
  [name \in {opts[j].name : j \in {k \in DOMAIN opts : Truthy(opts[k].alias)}} |->
     LET last == CHOOSE j \in DOMAIN opts :
                   /\ opts[j].name = name /\ Truthy(opts[j].alias)
                   /\ \A k \in DOMAIN opts :
                        (opts[k].name = name /\ Truthy(opts[k].alias)) => k <= j
     IN  opts[last].alias[1]]

\* optionsInfo.filter(option => option.type === type).map(option => option.name)
NamesOfType(opts, type) ==
  Names(SelectSeq(opts, LAMBDA option : option.type = type))

Configuration(opts) ==
  [alias |-> AliasMap(opts),
   boolean |-> NamesOfType(opts, "boolean"),
   number |-> NamesOfType(opts, "number"),
   string |-> NamesOfType(opts, "string")]

\* What the tokenizer may hand back for the command's arguments: each
\* value is absent (<<>>) or present.
Arguments ==
  [debug : {<<>>, <<TRUE>>},
   verbose : {<<>>, <<TRUE>>},
   authType : {<<>>, <<"password">>, <<"certificate">>, <<"secret">>, <<"invalid">>},
   userName : {<<>>, <<"">>, <<"user@contoso.com">>},
   password : {<<>>, <<"pass@word1">>},
   certificateFile : {<<>>, <<"localhost.pem">>, <<"missing.pem">>},
   certificateBase64Encoded : {<<>>, <<"MIII2QIB">>},
   secret : {<<>>, <<"s3cret">>},
   Title : {<<>>, <<"new list item">>}]

\* const argv = parse(args, { alias, boolean, number, string, ... }): the
\* configuration is built from the derived table; the arguments object is
\* the tokenizer's, and only the run of index.ts goes on to validate it.
parse ==
  /\ phase = "derived"
  /\ config' = <<Configuration(options)>>
  /\ IF IsProgram THEN \E a \in Arguments : argv' = <<a>> ELSE argv' = <<>>
  /\ phase' = "configured"
  /\ UNCHANGED <<defs, cur, pending, root, stack, options, origin, result>>

(* ------------------------------ validation ----------------------------- *)

\* fs.existsSync, for the files of the modelled file system.
existsSync(filePath) == filePath \in {"localhost.pem"}

Issue(path, message) == [path |-> path, message |-> message]

\* The issues commandOptions (a strict object) raises by itself, in the
\* order zod raises them: the properties in shape order, then the keys the
\* shape does not know.  An invalid enum value aborts the object's parse;
\* a failed refinement of a property and an unknown key do not.
InvalidAuthType(a) == a.authType # <<>> /\ a.authType[1] \notin Range(AuthTypes)

ObjectIssues(a) ==
     (IF InvalidAuthType(a)
      THEN <<Issue("authType", "Invalid enum value")>> ELSE <<>>)
  \o (IF ~(~Truthy(a.certificateFile) \/ existsSync(a.certificateFile[1]))
      THEN <<Issue("certificateFile", "Certificate file does not exist")>>
      ELSE <<>>)
  \o (IF a.Title # <<>>
      THEN <<Issue("", "Unrecognized key(s) in object")>> ELSE <<>>)

\* The value the object parse yields: defaults filled in.
Parse(a) ==
  [a EXCEPT !.debug = IF @ = <<>> THEN <<FALSE>> ELSE @,
            !.verbose = IF @ = <<>> THEN <<FALSE>> ELSE @,
            !.authType = IF @ = <<>> THEN <<"deviceCode">> ELSE @]

\* The refine() predicates, by their message.
Refinement(message, o) ==
  CASE message = "Specify debug or verbose, but not both" ->
         ~o.debug[1] \/ ~o.verbose[1]
    [] message = "Username is required when using password authentication" ->
         o.authType[1] # "password" \/ Truthy(o.userName)
    [] message = "Password is required when using password authentication" ->
         o.authType[1] # "password" \/ Truthy(o.password)
    [] message = "Specify either certificateFile or certificateBase64Encoded, but not both." ->
         o.authType[1] # "certificate"
           \/ ~(Truthy(o.certificateFile) /\ Truthy(o.certificateBase64Encoded))
    [] message = "Specify either certificateFile or certificateBase64Encoded" ->
         o.authType[1] # "certificate"
           \/ Truthy(o.certificateFile) \/ Truthy(o.certificateBase64Encoded)
    [] message = "Secret is required when using secret authentication" ->
         o.authType[1] # "secret" \/ Truthy(o.secret)

\* The refinements a schema carries, innermost (first applied) first.
getGlobalRefinedSchema == <<"Specify debug or verbose, but not both">>

\* A variant of getRefinedSchema with the password rule added before the
\* username rule.
getRefinedSchemaPasswordFirst ==
  getGlobalRefinedSchema \o
  <<"Password is required when using password authentication",
    "Username is required when using password authentication",
    "Specify either certificateFile or certificateBase64Encoded, but not both.",
    "Specify either certificateFile or certificateBase64Encoded",
    "Secret is required when using secret authentication">>

getRefinedSchema ==
  getGlobalRefinedSchema \o
  <<"Username is required when using password authentication",
    "Password is required when using password authentication",
    "Specify either certificateFile or certificateBase64Encoded, but not both.",
    "Specify either certificateFile or certificateBase64Encoded",
    "Secret is required when using secret authentication">>

\* getRefinedSchema(commandOptions).safeParse(argv): every refinement
\* wraps the schema before it, runs after it unless its parse aborted, and
\* adds its issue without aborting.
Errors(a) ==
  LET broken == SelectSeq(getRefinedSchema, LAMBDA m : ~Refinement(m, Parse(a)))
  IN  IF InvalidAuthType(a) THEN ObjectIssues(a)
      ELSE ObjectIssues(a) \o [i \in DOMAIN broken |-> Issue("", broken[i])]

safeParse ==
  /\ phase = "configured" /\ IsProgram
  /\ result' = <<[success |-> Errors(argv[1]) = <<>>, errors |-> Errors(argv[1])]>>
  /\ phase' = "validated"
  /\ UNCHANGED <<defs, cur, pending, root, stack, options, origin, config, argv>>

(* ---------------------------- specification --------------------------- *)

Blank ==
  /\ pending = <<>>
  /\ phase = "define"
  /\ root = 0
  /\ stack = <<>>
  /\ options = <<>>
  /\ origin = <<>>
  /\ config = <<>>
  /\ argv = <<>>
  /\ result = <<>>

\* Either nothing is declared yet, or the module's own declarations are in
\* place and one of its two object schemas is about to be derived from.
Init ==
  /\ Blank
  /\ \/ defs = <<>> /\ cur = 0
     \/ defs = ProgramDefs /\ cur \in {globalOptions, commandOptions}

Define ==
  \/ \E d \in Leaves : Leaf(d)
  \/ Optional
  \/ Default
  \/ Refine
  \/ \E other \in Operands, curLeft \in BOOLEAN : And(other, curLeft)
  \/ \E a \in Aliases : alias(a)
  \/ \E key \in Keys : Field(key)
  \/ Object
  \/ Cyclic

Next ==
  \/ Define
  \/ schemaToOptions
  \/ parseDef
  \/ parse
  \/ safeParse

Spec == Init /\ [][Next]_vars

(* ------------------------------ properties ---------------------------- *)

\* schemaToOptions has returned its table.
Derived == phase \in {"derived", "configured", "validated"}

RootIsObject == root # 0 /\ defs[root].typeName = "ZodObject"

LeafKinds == {"ZodString", "ZodNumber", "ZodBoolean", "ZodEnum", "ZodNativeEnum"}

\* The ten kinds of node resolution knows.
RecognizedKinds ==
  LeafKinds \cup {"ZodObject", "ZodOptional", "ZodDefault", "ZodEffects",
                  "ZodIntersection"}

\* The _defs resolution visits from n on, in order, as far as it stays
\* within one descriptor (it stops at a leaf, at an object, at a _def
\* without a parse function, or after fuel steps on a cyclic chain).
RECURSIVE Path(_, _)
Path(n, fuel) ==
  IF n = 0 \/ fuel = 0 THEN <<>>
  ELSE LET fn == getParseFn(defs[n].typeName)
       IN  IF fn \in {"", "parseObject"} THEN <<n>>
           ELSE <<n>> \o Path(Apply(fn, defs[n], <<>>).next, fuel - 1)

PathOf(n) == Path(n, Len(defs))

Last(s) == s[Len(s)]

KindsOn(path) == {defs[path[i]].typeName : i \in DOMAIN path}

\* An intersection of which exactly one child is not the no-op marker.
OneSided(n) ==
  (defs[defs[n].left].typeName = "ZodAny") # (defs[defs[n].right].typeName = "ZodAny")

\* C1: for a root object schema the derived table has exactly one
\* descriptor per declared field, the i-th named after the i-th declared
\* key, whatever kinds of node the fields are.
C1_OneDescriptorPerField ==
  (Derived /\ RootIsObject) =>
    /\ Len(options) = Len(defs[root].shape)
    /\ \A i \in DOMAIN options : options[i].name = defs[root].shape[i].key

\* The descriptor parseObject and parseDef derive for the type n alone,
\* n being a leaf.
Alone(n) ==
  Apply(getParseFn(defs[n].typeName), defs[n], <<OptionInfo("", <<>>)>>).option[1]

\* The path from the property n runs through Optional, Default, Refinement
\* and one-sided Intersection wrappers, at least one of them an Optional,
\* down to a leaf.
OptionalLeaf(n) ==
  LET path == PathOf(n)
  IN  /\ defs[Last(path)].typeName \in LeafKinds
      /\ \A i \in 1..(Len(path) - 1) :
           /\ defs[path[i]].typeName \in
                {"ZodOptional", "ZodDefault", "ZodEffects", "ZodIntersection"}
           /\ defs[path[i]].typeName = "ZodIntersection" => OneSided(path[i])
      /\ \E i \in 1..(Len(path) - 1) : defs[path[i]].typeName = "ZodOptional"

C3_DefaultNotRequired ==
  Derived =>
    \A j \in DOMAIN options :
      options[j].required =
        (KindsOn(PathOf(origin[j])) \cap {"ZodOptional", "ZodDefault"} = {})

\* C4 as claimed: an alias put on any node of the field's chain, the
\* outermost or one that was wrapped afterwards, is the descriptor's
\* alias; with no alias on the chain the descriptor has none.
C4_AliasAnywhere ==
  Derived =>
    \A j \in DOMAIN options :
      LET path == PathOf(origin[j])
      IN  /\ \A i \in DOMAIN path :
               defs[path[i]].alias # <<>> => options[j].alias = defs[path[i]].alias
          /\ (\A i \in DOMAIN path : defs[path[i]].alias = <<>>)
               => options[j].alias = <<>>

\* C4, amended: the descriptor's alias is the alias of the field's own
\* (outermost) node, unset when that node has none, whatever aliases the
\* nodes it wraps carry.
C4_AliasOfOutermost ==
  Derived =>
    \A j \in DOMAIN options : options[j].alias = defs[origin[j]].alias

\* A derived table with the descriptor of a field whose outermost node is
\* a wrapper carrying an alias.
C4_Witness ==
  /\ Derived
  /\ \E j \in DOMAIN options :
       /\ defs[origin[j]].alias # <<>>
       /\ Len(PathOf(origin[j])) >= 2
       /\ options[j].alias = defs[origin[j]].alias

\* C5: a field ending in a native enum has type string and, as its
\* autocomplete list, exactly the enum's member names, none of its values.
C5_NativeEnumNames ==
  Derived =>
    \A j \in DOMAIN options :
      LET leaf == defs[Last(PathOf(origin[j]))]
      IN  leaf.typeName = "ZodNativeEnum" =>
            /\ options[j].type = "string"
            /\ options[j].autocomplete = <<SelectSeq(leaf.values, IsNamedKey)>>

Occurrences(x, seq) == Cardinality({i \in DOMAIN seq : seq[i] = x})

TypeLists(c) == c.string \o c.number \o c.boolean

\* C6: in the tokenizer configuration every option name is in exactly one
\* of the string, number and boolean lists, the one of its descriptor's
\* type, and is a key of the alias map only if its descriptor has an alias.
C6_OneTypeListPerName ==
  phase \in {"configured", "validated"} =>
    \A j \in DOMAIN options :
      /\ Occurrences(options[j].name, TypeLists(config[1])) = 1
      /\ options[j].name \in Range(config[1][options[j].type])
      /\ options[j].name \in DOMAIN config[1].alias => options[j].alias # <<>>

\* Some cross-field rule does not hold of the arguments (defaults applied).
RuleBroken(a) == \E i \in DOMAIN getRefinedSchema : ~Refinement(getRefinedSchema[i], Parse(a))

\* The message validation is to report first: the rules in layering
\* order, the universal one before the command's, username before
\* password.
FirstBroken(a) ==
  LET o == Parse(a)
      passwordAuth == o.authType = <<"password">>
      certificateAuth == o.authType = <<"certificate">>
  IN  IF o.debug = <<TRUE>> /\ o.verbose = <<TRUE>>
        THEN "Specify debug or verbose, but not both"
      ELSE IF passwordAuth /\ ~Truthy(o.userName)
        THEN "Username is required when using password authentication"
      ELSE IF passwordAuth /\ ~Truthy(o.password)
        THEN "Password is required when using password authentication"
      ELSE IF certificateAuth /\ Truthy(o.certificateFile)
                /\ Truthy(o.certificateBase64Encoded)
        THEN "Specify either certificateFile or certificateBase64Encoded, but not both."
      ELSE IF certificateAuth
        THEN "Specify either certificateFile or certificateBase64Encoded"
      ELSE "Secret is required when using secret authentication"

\* C7 as claimed: whenever the arguments break a cross-field rule, the
\* first violation reported is the earliest broken rule, whatever else is
\* wrong with them (so debug and verbose together always report the
\* mutual-exclusion rule).
C7_FirstRuleAlways ==
  (phase = "validated" /\ RuleBroken(argv[1])) =>
    /\ ~result[1].success
    /\ result[1].errors[1].message = FirstBroken(argv[1])

\* C7, amended: when the arguments pass the object schema's own checks
\* (property values, unknown keys) and break a cross-field rule, the first
\* violation reported is the earliest broken rule in layering order.
C7_FirstRuleWhenObjectValid ==
  (phase = "validated" /\ ObjectIssues(argv[1]) = <<>> /\ RuleBroken(argv[1])) =>
    /\ ~result[1].success
    /\ result[1].errors[1].message = FirstBroken(argv[1])

\* --authType password alone, with --debug --verbose or without: no
\* username and no password, reported as the mutual-exclusion rule in the
\* first case and as the username rule in the second.
C7_Witness ==
  /\ phase = "validated"
  /\ ObjectIssues(argv[1]) = <<>>
  /\ argv[1].authType = <<"password">>
  /\ argv[1].userName = <<>> /\ argv[1].password = <<>>
  /\ argv[1].debug = <<>>
  /\ Len(result[1].errors) = 2
  /\ result[1].errors[1].message = "Username is required when using password authentication"

\* parseDef is about to dispatch on an intersection.
AtIntersection ==
  Running("parseDef") /\ defs[Top.def].typeName = "ZodIntersection"

IsMarker(n) == defs[n].typeName = "ZodAny"

\* The step taken continues the same activation at child n and writes
\* nothing to the descriptor.
ContinuesWith(n) ==
  /\ Len(stack') = Len(stack)
  /\ stack'[Len(stack)].def = n
  /\ stack'[Len(stack)].option = Top.option
  /\ options' = options

\* The step taken ends the activation with the descriptor as it was.
HaltsHere ==
  /\ Len(stack') = Len(stack) - 1
  /\ Below # <<>> => options' = Append(options, Top.option[1])
  /\ Below = <<>> => options' = options

\* C8 as claimed: at an intersection, resolution continues with the one
\* child that is not the marker type, and halts there when both children
\* or neither are non-marker types.
C8_HaltsUnlessOneSided ==
  [][AtIntersection =>
       LET l == defs[Top.def].left
           r == defs[Top.def].right
       IN  IF IsMarker(l) /\ ~IsMarker(r) THEN ContinuesWith(r)
           ELSE IF ~IsMarker(l) /\ IsMarker(r) THEN ContinuesWith(l)
           ELSE HaltsHere]_vars

\* C8, amended: at an intersection, resolution continues with the left
\* child whenever it is not the marker type (also when the right child is
\* a non-marker type too), otherwise with the right child if that is not
\* the marker type, and halts there only when both children are markers.
C8_LeftFirst ==
  [][AtIntersection =>
       LET l == defs[Top.def].left
           r == defs[Top.def].right
       IN  IF ~IsMarker(l) THEN ContinuesWith(l)
           ELSE IF ~IsMarker(r) THEN ContinuesWith(r)
           ELSE HaltsHere]_vars

\* Resolution has gone from an intersection of two non-marker types into
\* its left child.
C8_Witness ==
  /\ Running("parseDef")
  /\ \E n \in Top.seen :
       /\ defs[n].typeName = "ZodIntersection"
       /\ ~IsMarker(defs[n].left) /\ ~IsMarker(defs[n].right)
       /\ Top.def = defs[n].left

\* C9: resolving a field always ends: parseDef dispatches on each node of
\* a chain at most once, so it is never about to dispatch on a node it
\* has dispatched on before; on a cyclic chain derivation fails instead.
C9_NoNodeTwice ==
  Running("parseDef") => Top.def \notin Top.seen

====
